---- MODULE Spec2Model ----
(***************************************************************************)
(* Model of the clip archival pipeline of dailyfrigate.                    *)
(*                                                                         *)
(*   Spec      invocations of grabit.py in single-date mode, one after the *)
(*             other on the same output path: archive_events_for_date and  *)
(*             everything it calls.                                        *)
(*   SpecPool  the chunked, pooled pipeline of optfrigate2.py.             *)
(*                                                                         *)
(* Paths are tuples <<kind, clip id>>; Python's None is the empty tuple    *)
(* for paths and NoneDur for duration_sec.  duration_sec is held in tenths *)
(* of a millisecond, so that int(duration_sec * 1000) is a real floor.     *)
(***************************************************************************)
EXTENDS Integers, Sequences, FiniteSets, TLC

\* ---------------------------------------------------------------- bounds
MaxClips == 4            \* longest catalog the event server returns
MaxPoolClips == 5        \* longest catalog in the pooled pipeline
chunk_size == 3          \* clips per chunk (10 in optfrigate2.py, scaled down)
PoolWorkers == 2         \* max_workers of ThreadPoolExecutor() on this host

\* ------------------------------------------------------ program constants
FailureThreshold == 2    \* failed_count > 2 aborts the run

\* ------------------------------------------------------------ input sets
StartTimes == {1, 2}
ProbedDurations == {0, 20005}     \* tenths of ms; 0: stream without 'duration'
None == <<>>
NoneDur == -1

VARIABLES
    pc,               \* position of the run inside the program
    outputFile,       \* what is at output_path: "none", "old", "partial", "final"
    fileAtStart,      \* outputFile when the current invocation started
    outcome,          \* how archive_events_for_date ended
    runError,         \* span attribute "error" of the archive_events span
    exitCode,         \* exit status of the process, -1 while it runs
    eventsJson,       \* events = response.json(), as the server ordered them
    clips,            \* the FrigateClip list of the run
    next,             \* 1-based index i of the loop in process_clips
    errorType,        \* span attribute "error_type" of the last process_clip span
    failedStep,       \* step of process_single_clip that raised in the last call
    pscRaised,        \* exception that left the last process_single_clip call
    counters,         \* counter_text drawn into each clip processed so far, None if none
    successful_clips, \* return value of process_clips
    concatList,       \* lines of files.txt
    chapters,         \* [CHAPTER] blocks of chapters.txt
    tempConcat,       \* inputs stream-copied into temp_concat, None before
    tempDir,          \* the TemporaryDirectory exists on disk
    registered,       \* _temp_directories
    params,           \* 'after' and 'before' of the GET /api/events issued
    didQuery,         \* GET /api/events was issued in this invocation
    didDownload,      \* a clip or snapshot GET was issued in this invocation
    didEngine,        \* ffprobe or ffmpeg was started in this invocation
    madeTemp,         \* a temporary directory was created in this invocation
    concatInvoked,    \* concatenate_videos was called
    mergeInvoked,     \* add_metadata_to_video was called
    \* ---- signal handling
    handlers,         \* stack of running signal_handler calls, innermost last
    cleanupFailed,    \* cleanup_temp_files logged "Failed to cleanup"
    \* ---- archive_mode with --date-range
    date_range,       \* the argument split at ':', each part <<year, month, day>>
    start_date,       \* datetime parsed from the first part
    end_date,         \* datetime parsed from the second part
    current_date,     \* loop variable of archive_mode
    started,          \* date_str of every archive_events_for_date call, in order
    rpc,              \* position of archive_mode: off, parse, loop, running, done, error
    \* ---- output directory
    args,             \* date, camera, zone, label, format of the invocation
    disk,             \* files in output_dir: path and the arguments that wrote it
    apc,              \* position of the invocation: "gate", "run", "end"
    \* ---- optfrigate2.py
    ppc,              \* position of the optfrigate2 script
    clipList,         \* the events fetched, sorted by start_time
    idList,           \* (clip url, idx) pairs
    chunks,           \* idList cut into chunks
    chunkNo,          \* 1-based number of the chunk being processed
    futures,          \* state of the chunk's futures: queued, running, done
    results,          \* result of each future, by position in the chunk
    arrival,          \* positions of the chunk in the order their futures completed
    clip_streams,     \* the list built from executor.map
    temp_files,       \* names (chunk ids) of the chunk files, as appended
    encoded,          \* per temp file: was it written, and from which clips
    finalJoin         \* inputs of the final join, None before it ran

vars == <<pc, outputFile, fileAtStart, outcome, runError, exitCode,
          eventsJson, clips, next, errorType, failedStep, pscRaised, counters,
          successful_clips, concatList,
          chapters, tempConcat, tempDir, registered, params, didQuery, didDownload,
          didEngine, madeTemp, concatInvoked, mergeInvoked,
          handlers, cleanupFailed,
          date_range, start_date, end_date, current_date, started, rpc,
          args, disk, apc,
          ppc, clipList, idList, chunks, chunkNo, futures, results, arrival,
          clip_streams, temp_files, encoded, finalJoin>>

poolVars == <<ppc, clipList, idList, chunks, chunkNo, futures, results, arrival,
              clip_streams, temp_files, encoded, finalJoin>>
sigVars == <<handlers, cleanupFailed>>
grabitVarsNoSig == <<pc, outputFile, fileAtStart, outcome, runError, exitCode,
                     eventsJson, clips, next, errorType, failedStep, pscRaised, counters,
                     successful_clips, concatList,
                     chapters, tempConcat, tempDir, registered, params, didQuery,
                     didDownload, didEngine, madeTemp, concatInvoked,
                     mergeInvoked>>
rangeVars == <<date_range, start_date, end_date, current_date, started, rpc>>
pathVars == <<args, disk, apc>>
otherVars == <<poolVars, sigVars, rangeVars, pathVars>>
grabitVars == <<pc, outputFile, fileAtStart, outcome, runError, exitCode,
                eventsJson, clips, next, errorType, failedStep, pscRaised, counters,
                successful_clips, concatList,
                chapters, tempConcat, tempDir, registered, params, didQuery, didDownload,
                didEngine, madeTemp, concatInvoked, mergeInvoked, sigVars,
                rangeVars, pathVars>>

runVars == <<eventsJson, clips, next, errorType, failedStep, pscRaised, counters,
             successful_clips, concatList,
             chapters, tempConcat>>
flagVars == <<params, didQuery, didDownload, didEngine, madeTemp, concatInvoked,
              mergeInvoked>>

\* ------------------------------------------------------------ FrigateClip
FromEvent(event) ==
    [id |-> event.id, start_time |-> event.start_time,
     download_path |-> None, snapshot_path |-> None, pip_path |-> None,
     duration_sec |-> NoneDur]

\* Python truthiness of clip.pip_path and clip.duration_sec
TruthyPath(p) == p # None
TruthyDur(d) == d # NoneDur /\ d # 0

\* faulty variant: an unstable sort, equal keys change places
RECURSIVE InsertBeforeEqual(_, _)
InsertBeforeEqual(c, s) ==
    IF s = <<>> THEN <<c>>
    ELSE IF c.start_time <= Head(s).start_time THEN <<c>> \o s
    ELSE <<Head(s)>> \o InsertBeforeEqual(c, Tail(s))

\* list.sort(key=start_time): a stable sort, here by insertion
RECURSIVE InsertByStartTime(_, _)
InsertByStartTime(c, s) ==
    IF s = <<>> THEN <<c>>
    ELSE IF c.start_time < Head(s).start_time THEN <<c>> \o s
    ELSE <<Head(s)>> \o InsertByStartTime(c, Tail(s))

\* faulty variant: the clips.sort call is missing
SortUnsorted(s) == s

RECURSIVE SortByStartTime(_)
SortByStartTime(s) ==
    IF s = <<>> THEN <<>>
    ELSE LET n == Len(s)
         IN InsertByStartTime(s[n], SortByStartTime(SubSeq(s, 1, n - 1)))

\* the responses the event server can give: events in any order of start_time
Events(n) == [1..n -> StartTimes]
Catalogs == UNION {{[i \in 1..n |-> [id |-> i, start_time |-> f[i]]] : f \in Events(n)} : n \in 0..MaxClips}

\* get_events_for_date, after a successful response
GetEventsForDate(events) ==
    SortByStartTime([i \in 1..Len(events) |-> FromEvent(events[i])])

\* ------------------------------------------------------ process_single_clip
\* What can go wrong inside one clip: <<step, exception class>>
NoFault == <<"none", "none">>
Faults == {<<"download_clip", "RequestException">>,
           <<"download_clip", "OSError">>,
           <<"download_snapshot", "RequestException">>,
           <<"analyze_video", "ffmpeg.Error">>,
           <<"analyze_video", "ValueError">>,
           <<"create_pip_video", "ffmpeg.Error">>}
ClipInputs == {[fault |-> f, duration |-> NoneDur] : f \in Faults}
              \cup {[fault |-> NoFault, duration |-> d] : d \in ProbedDurations}

\* subclasses of Exception (SystemExit and KeyboardInterrupt are not)
IsException(exc) ==
    exc \in {"RequestException", "OSError", "CalledProcessError",
             "ffmpeg.Error", "ValueError"}

\* faulty variant: the final `except Exception` clause is missing
ExceptClauseNoGeneric(exc) ==
    IF exc = "RequestException" THEN "http_error"
    ELSE IF exc = "OSError" THEN "file_io_error"
    ELSE IF exc = "CalledProcessError" THEN "ffmpeg_error"
    ELSE "uncaught"

\* the except clauses of process_single_clip, in order; the span's error_type
ExceptClause(exc) ==
    IF exc = "RequestException" THEN "http_error"
    ELSE IF exc = "OSError" THEN "file_io_error"
    ELSE IF exc = "CalledProcessError" THEN "ffmpeg_error"
    ELSE IF IsException(exc) THEN "unknown_error"
    ELSE "uncaught"

\* faulty variant: the paths are assigned as the steps complete and the
\* except clauses do not clear them
ProcessSingleClipPartial(clip, r) ==
    IF r.fault = NoFault
    THEN [clip |-> [clip EXCEPT !.download_path = <<"clip", clip.id>>,
                                !.snapshot_path = <<"snapshot", clip.id>>,
                                !.pip_path = <<"pip", clip.id>>,
                                !.duration_sec = r.duration],
          raised |-> "none", error_type |-> "none"]
    ELSE [clip |-> [clip EXCEPT !.download_path =
                        IF r.fault[1] = "download_clip" THEN None
                        ELSE <<"clip", clip.id>>],
          raised |-> "none", error_type |-> ExceptClause(r.fault[2])]

\* lines 531-607: the four steps, then the assignments; any except clause
\* clears the three paths
ProcessSingleClip(clip, r) ==
    IF r.fault = NoFault
    THEN [clip |-> [clip EXCEPT !.download_path = <<"clip", clip.id>>,
                                !.snapshot_path = <<"snapshot", clip.id>>,
                                !.pip_path = <<"pip", clip.id>>,
                                !.duration_sec = r.duration],
          raised |-> "none", error_type |-> "none"]
    ELSE IF ExceptClause(r.fault[2]) # "uncaught"
    THEN [clip |-> [clip EXCEPT !.download_path = None,
                                !.snapshot_path = None,
                                !.pip_path = None],
          raised |-> "none", error_type |-> ExceptClause(r.fault[2])]
    ELSE [clip |-> clip, raised |-> r.fault[2], error_type |-> "none"]

\* the except clauses around the call in process_clips
ProcessClipsCatches(exc) == IsException(exc)

\* successful_clips = [clip for clip in clips if clip.pip_path is not None]
IsSuccessful(clip) == clip.pip_path # None
SuccessfulClips(cs) == SelectSeq(cs, IsSuccessful)

\* ------------------------------------------------- concat list and chapters
PipLine(clip) == clip.pip_path
CreateConcatFile(cs) ==
    LET kept == SelectSeq(cs, LAMBDA c : TruthyPath(c.pip_path))
    IN [i \in 1..Len(kept) |-> PipLine(kept[i])]

\* int(clip.duration_sec * 1000)
IntMs(d) == d \div 10

\* `if not clip.pip_path or not clip.duration_sec: continue`
SkipChapter(clip) == ~TruthyPath(clip.pip_path) \/ ~TruthyDur(clip.duration_sec)

\* faulty variant: current_time_ms = duration_ms, the offset does not accumulate
NextCurrentTimeReset(start_time_ms, end_time_ms) == end_time_ms - start_time_ms

\* current_time_ms = end_time_ms
NextCurrentTime(start_time_ms, end_time_ms) == end_time_ms

RECURSIVE ChaptersFrom(_, _)
ChaptersFrom(cs, current_time_ms) ==
    IF cs = <<>> THEN <<>>
    ELSE IF SkipChapter(Head(cs)) THEN ChaptersFrom(Tail(cs), current_time_ms)
    ELSE LET start_time_ms == current_time_ms
             end_time_ms == start_time_ms + IntMs(Head(cs).duration_sec)
         IN <<[START |-> start_time_ms, END |-> end_time_ms,
               title |-> Head(cs).id]>>
            \o ChaptersFrom(Tail(cs), NextCurrentTime(start_time_ms, end_time_ms))

CreateChaptersFile(cs) == ChaptersFrom(cs, 0)

\* --------------------------------------------------------- batch policy
\* faulty variant: the zero-success check is missing
NoneSucceededNever(succ) == FALSE

\* `if not successful_clips`
NoneSucceeded(succ) == succ = <<>>

\* faulty variants: the threshold is one too high; `>=` instead of `>`
TooManyFailedLoose(failed_count) == failed_count > FailureThreshold + 1
TooManyFailedStrict(failed_count) == failed_count >= FailureThreshold

\* `if failed_count > 2`
TooManyFailed(failed_count) == failed_count > FailureThreshold

\* --------------------------------------------------------- file system
\* faulty variant: the existence test is missing
OutputExistsNever(f) == FALSE

\* os.path.exists(output_path)
OutputExists(f) == f # "none"

\* faulty variant: the except clause does not remove the output
RemoveOutputKeep(f) == f

\* `if os.path.exists(output_path): os.remove(output_path)`
RemoveOutput(f) == IF OutputExists(f) THEN "none" ELSE f

TempDirName == "tmp"

\* faulty variant: the directory is made without the context manager
TemporaryDirectoryLeak(exists) == exists

\* end of `with tempfile.TemporaryDirectory()`: the directory is removed on
\* every way out of the block (a directory already gone is ignored)
TemporaryDirectoryExit(exists) == FALSE

\* faulty variant: rmtree is called without looking
TempDirExistsAlways(exists) == TRUE

\* line 144: os.path.exists(temp_dir)
TempDirExists(exists) == exists

\* cleanup_temp_files: rmtree every registered directory that exists, clear
CleanupTempFiles ==
    /\ tempDir' = IF TempDirName \in registered THEN FALSE ELSE tempDir
    /\ registered' = {}

\* ------------------------------------------------------- dates and times
\* A date string "YYYY-MM-DD" is written <<year, month, day>>; a datetime is
\* a record with the fields year, month, day (time of day 00:00:00).
IsLeap(y) == (y % 4 = 0) /\ ((y % 100 # 0) \/ (y % 400 = 0))
DaysInMonth(y, m) ==
    IF m = 2 THEN (IF IsLeap(y) THEN 29 ELSE 28)
    ELSE IF m \in {4, 6, 9, 11} THEN 30 ELSE 31

\* datetime.strptime(part, "%Y-%m-%d") raises ValueError unless this holds
ValidDate(part) ==
    /\ part[2] \in 1..12
    /\ part[3] \in 1..DaysInMonth(part[1], part[2])
Strptime(part) == [year |-> part[1], month |-> part[2], day |-> part[3]]

\* current_date.strftime("%Y-%m-%d")
Strftime(dt) == <<dt.year, dt.month, dt.day>>

\* datetime comparison
DateLess(a, b) ==
    \/ a.year < b.year
    \/ a.year = b.year /\ a.month < b.month
    \/ a.year = b.year /\ a.month = b.month /\ a.day < b.day

\* current_date += timedelta(days=1)
AddDay(dt) ==
    IF dt.day < DaysInMonth(dt.year, dt.month)
    THEN [dt EXCEPT !.day = dt.day + 1]
    ELSE IF dt.month < 12
    THEN [dt EXCEPT !.month = dt.month + 1, !.day = 1]
    ELSE [year |-> dt.year + 1, month |-> 1, day |-> 1]

\* days from 1970-01-01 to the date of a datetime
DaysSinceEpoch(dt) ==
    LET y == dt.year - 1
        before == <<0, 31, 59, 90, 120, 151, 181, 212, 243, 273, 304, 334>>
    IN 365 * y + (y \div 4) - (y \div 100) + (y \div 400)
       + before[dt.month] + (IF dt.month > 2 /\ IsLeap(dt.year) THEN 1 ELSE 0)
       + dt.day - 719163

\* the local zone of the host: UTC-5, and UTC-4 from the night of
\* 2024-03-10 on (daylight saving time starts at 02:00 that day)
UtcOffset(dt) ==
    IF dt.year = 2024 /\ (dt.month > 3 \/ (dt.month = 3 /\ dt.day > 10))
    THEN -14400 ELSE -18000

\* int(dt.timestamp()) of a naive datetime: local time to epoch seconds
Timestamp(dt) == DaysSinceEpoch(dt) * 86400 - UtcOffset(dt)

\* faulty variant: the window is 86400 seconds long
QueryParams24h(date) ==
    [after |-> Timestamp(Strptime(date)),
     before |-> Timestamp(Strptime(date)) + 86400]

\* get_events_for_date, lines 257-261: start_date, end_date, before, after
QueryParams(date) ==
    LET start_date_ == Strptime(date)
        end_date_ == AddDay(start_date_)
    IN [after |-> Timestamp(start_date_), before |-> Timestamp(end_date_)]

\* --date of a single-date run
SingleDate == <<2024, 2, 28>>

\* the date argument of the current archive_events_for_date call
RunDate == IF started = <<>> THEN SingleDate ELSE started[Len(started)]

\* ======================================================== grabit.py, a run
\* the output directory is not looked at by name
PathIdle ==
    /\ args = None
    /\ disk = {}
    /\ apc = "off"

\* --date was given: archive_mode does not enter the date-range branch
RangeIdle ==
    /\ date_range = <<>>
    /\ start_date = None
    /\ end_date = None
    /\ current_date = None
    /\ started = <<>>
    /\ rpc = "off"

PoolIdle ==
    /\ ppc = "fetch"
    /\ clipList = <<>>
    /\ idList = <<>>
    /\ chunks = <<>>
    /\ chunkNo = 0
    /\ futures = <<>>
    /\ results = <<>>
    /\ arrival = <<>>
    /\ clip_streams = <<>>
    /\ temp_files = <<>>
    /\ encoded = <<>>
    /\ finalJoin = None

Init ==
    /\ PoolIdle
    /\ PathIdle
    /\ RangeIdle
    /\ pc = "gate"
    /\ outputFile \in {"none", "old"}
    /\ fileAtStart = outputFile
    /\ outcome = "running"
    /\ runError = "none"
    /\ exitCode = -1
    /\ eventsJson = <<>>
    /\ clips = <<>>
    /\ next = 0
    /\ errorType = "none"
    /\ failedStep = "none"
    /\ pscRaised = "none"
    /\ counters = <<>>
    /\ successful_clips = <<>>
    /\ concatList = <<>>
    /\ chapters = <<>>
    /\ tempConcat = None
    /\ tempDir = FALSE
    /\ registered = {}
    /\ params = None
    /\ didQuery = FALSE
    /\ didDownload = FALSE
    /\ didEngine = FALSE
    /\ madeTemp = FALSE
    /\ concatInvoked = FALSE
    /\ mergeInvoked = FALSE
    /\ handlers = <<>>
    /\ cleanupFailed = FALSE

\* archive_events_for_date, lines 799-812: build output_path, skip if it exists
Gate ==
    /\ pc = "gate"
    /\ IF OutputExists(outputFile)
       THEN /\ outcome' = "skipped"
            /\ pc' = "returned"
       ELSE /\ outcome' = outcome
            /\ pc' = "query"
    /\ UNCHANGED <<outputFile, fileAtStart, runError, exitCode, runVars,
                   tempDir, registered, flagVars>>
    /\ UNCHANGED otherVars

\* faulty variant: the request error is caught and taken for an empty catalog
QueryFailsSwallowed ==
    /\ pc = "query"
    /\ params' = QueryParams(RunDate)
    /\ didQuery' = TRUE
    /\ outcome' = "no_events"
    /\ runError' = "RequestException"
    /\ pc' = "returned"
    /\ UNCHANGED <<outputFile, fileAtStart, exitCode, runVars, tempDir,
                   registered, didDownload, didEngine, madeTemp,
                   concatInvoked, mergeInvoked>>
    /\ UNCHANGED otherVars

\* get_events_for_date: the GET fails (raise_for_status or transport error) and
\* the exception leaves archive_events_for_date, archive_mode and main
QueryFails ==
    /\ pc = "query"
    /\ params' = QueryParams(RunDate)
    /\ didQuery' = TRUE
    /\ outcome' = "query_error"
    /\ runError' = "RequestException"
    /\ exitCode' = 1
    /\ pc' = "exiting"
    /\ UNCHANGED <<outputFile, fileAtStart, runVars, tempDir, registered,
                   didDownload, didEngine, madeTemp, concatInvoked, mergeInvoked>>
    /\ UNCHANGED otherVars

\* faulty variant: an empty catalog is not answered with a return
QueryFromNoEmptyCheck(responses) ==
    /\ pc = "query"
    /\ \E response \in responses :
          /\ eventsJson' = response
          /\ clips' = GetEventsForDate(response)
    /\ pc' = "mktemp"
    /\ params' = QueryParams(RunDate)
    /\ didQuery' = TRUE
    /\ UNCHANGED <<outputFile, fileAtStart, outcome, runError, exitCode, next,
                   errorType, failedStep, pscRaised, counters, successful_clips,
                   concatList, chapters, tempConcat, tempDir, registered,
                   didDownload, didEngine, madeTemp, concatInvoked,
                   mergeInvoked>>
    /\ UNCHANGED otherVars

\* get_events_for_date answers; `if not clips: return`
QueryFrom(responses) ==
    /\ pc = "query"
    /\ \E response \in responses :
          /\ eventsJson' = response
          /\ clips' = GetEventsForDate(response)
          /\ IF response = <<>>
             THEN /\ outcome' = "no_events"
                  /\ pc' = "returned"
             ELSE /\ outcome' = outcome
                  /\ pc' = "mktemp"
    /\ params' = QueryParams(RunDate)
    /\ didQuery' = TRUE
    /\ UNCHANGED <<outputFile, fileAtStart, runError, exitCode, next,
                   errorType, failedStep, pscRaised, counters, successful_clips, concatList, chapters,
                   tempConcat, tempDir, registered, didDownload, didEngine,
                   madeTemp, concatInvoked, mergeInvoked>>
    /\ UNCHANGED otherVars

Query == QueryFrom(Catalogs)

\* with tempfile.TemporaryDirectory() as temp_dir: register_temp_directory
MakeTempDir ==
    /\ pc = "mktemp"
    /\ tempDir' = TRUE
    /\ registered' = registered \cup {TempDirName}
    /\ madeTemp' = TRUE
    /\ next' = 1
    /\ pc' = "process"
    /\ UNCHANGED <<outputFile, fileAtStart, outcome, runError, exitCode,
                   eventsJson, clips, errorType, failedStep, pscRaised, counters, successful_clips, concatList,
                   chapters, tempConcat, params, didQuery, didDownload, didEngine,
                   concatInvoked, mergeInvoked>>
    /\ UNCHANGED otherVars

\* faulty variant: the clips are numbered from 0
ClipNumberZeroBased(i) == i - 1

\* process_clips, line 622: `for i, clip in enumerate(clips, 1)`
ClipNumber(i) == i

\* create_pip_video, line 459: counter_text = f"{clip_number}/{total_clips}"
CounterText(clip_number, total_clips) == <<clip_number, total_clips>>

\* one iteration of the loop of process_clips: process_single_clip on clip i,
\* called with i and len(clips); create_pip_video draws the counter
ProcessClipFrom(inputs) ==
    /\ pc = "process"
    /\ next <= Len(clips)
    /\ \E r \in inputs :
          LET res == ProcessSingleClip(clips[next], r)
          IN /\ clips' = [clips EXCEPT ![next] = res.clip]
             /\ errorType' = res.error_type
             /\ failedStep' = r.fault[1]
             /\ pscRaised' = res.raised
             /\ counters' = IF res.raised = "none" \/ ProcessClipsCatches(res.raised)
                            THEN Append(counters,
                                        IF res.clip.pip_path # None
                                        THEN CounterText(ClipNumber(next), Len(clips))
                                        ELSE None)
                            ELSE counters
             /\ didDownload' = TRUE
             /\ didEngine' = (didEngine \/ r.fault[1] \notin {"download_clip", "download_snapshot"})
             /\ IF res.raised = "none" \/ ProcessClipsCatches(res.raised)
                THEN /\ next' = next + 1
                     /\ pc' = pc
                     /\ runError' = runError
                ELSE /\ next' = next
                     /\ pc' = "except"
                     /\ runError' = res.raised
    /\ UNCHANGED <<outputFile, fileAtStart, outcome, exitCode, eventsJson,
                   successful_clips, concatList, chapters, tempConcat, tempDir,
                   registered, params, didQuery, madeTemp, concatInvoked, mergeInvoked>>
    /\ UNCHANGED otherVars

ProcessClip == ProcessClipFrom(ClipInputs)

\* process_clips, lines 649-653: count and return the successful clips
ProcessClipsReturn ==
    /\ pc = "process"
    /\ next > Len(clips)
    /\ successful_clips' = SuccessfulClips(clips)
    /\ pc' = "check"
    /\ UNCHANGED <<outputFile, fileAtStart, outcome, runError, exitCode,
                   eventsJson, clips, next, errorType, failedStep, pscRaised, counters, concatList, chapters,
                   tempConcat, tempDir, registered, flagVars>>
    /\ UNCHANGED otherVars

\* lines 831-843: the two abort checks; sys.exit(1) raises SystemExit, which
\* no except clause catches, so the with block removes the directory on the way
CheckResults ==
    /\ pc = "check"
    /\ IF NoneSucceeded(successful_clips)
       THEN /\ outcome' = "NoClipsProcessed"
            /\ runError' = "No clips successfully processed"
            /\ exitCode' = 1
            /\ tempDir' = TemporaryDirectoryExit(tempDir)
            /\ pc' = "exiting"
       ELSE IF TooManyFailed(Len(clips) - Len(successful_clips))
       THEN /\ outcome' = "TooManyFailures"
            /\ runError' = "Too many failed clips"
            /\ exitCode' = 1
            /\ tempDir' = TemporaryDirectoryExit(tempDir)
            /\ pc' = "exiting"
       ELSE /\ pc' = "assemble"
            /\ UNCHANGED <<outcome, runError, exitCode, tempDir>>
    /\ UNCHANGED <<outputFile, fileAtStart, runVars, registered, flagVars>>
    /\ UNCHANGED otherVars

\* lines 848-854: files.txt, chapters.txt, metadata.txt
Assemble ==
    /\ pc = "assemble"
    /\ concatList' = CreateConcatFile(successful_clips)
    /\ chapters' = CreateChaptersFile(successful_clips)
    /\ pc' = "concat"
    /\ UNCHANGED <<outputFile, fileAtStart, outcome, runError, exitCode,
                   eventsJson, clips, next, errorType, failedStep, pscRaised, counters, successful_clips,
                   tempConcat, tempDir, registered, flagVars>>
    /\ UNCHANGED otherVars

\* concatenate_videos: ffmpeg stream-copies files.txt into temp_concat, or fails
ConcatenateVideos ==
    /\ pc = "concat"
    /\ concatInvoked' = TRUE
    /\ didEngine' = TRUE
    /\ \E ok \in BOOLEAN :
          IF ok
          THEN /\ tempConcat' = concatList
               /\ pc' = "merge"
               /\ runError' = runError
          ELSE /\ tempConcat' = tempConcat
               /\ pc' = "except"
               /\ runError' = "concat"
    /\ UNCHANGED <<outputFile, fileAtStart, outcome, exitCode, eventsJson, clips, next,
                   errorType, failedStep, pscRaised, counters, successful_clips, concatList, chapters,
                   tempDir, registered, params, didQuery, didDownload, madeTemp,
                   mergeInvoked>>
    /\ UNCHANGED otherVars

\* add_metadata_to_video starts `ffmpeg ... -y output_path`: the engine either
\* fails before it opens the output or opens it and starts writing
AddMetadataStart ==
    /\ pc = "merge"
    /\ mergeInvoked' = TRUE
    /\ didEngine' = TRUE
    /\ \E opened \in BOOLEAN :
          IF opened
          THEN /\ outputFile' = "partial"
               /\ pc' = "merging"
               /\ runError' = runError
          ELSE /\ outputFile' = outputFile
               /\ pc' = "except"
               /\ runError' = "merge"
    /\ UNCHANGED <<fileAtStart, outcome, exitCode, runVars, tempDir,
                   registered, params, didQuery, didDownload, madeTemp, concatInvoked>>
    /\ UNCHANGED otherVars

\* the engine exits: 0 with the container complete, or non-zero part-way.
\* The CalledProcessError is answered with `raise ffmpeg.Error(...)`; that
\* exception, or a TypeError from constructing it, leaves the function and is
\* an Exception either way, so one of the two except clauses of
\* archive_events_for_date receives it.
AddMetadataEnd ==
    /\ pc = "merging"
    /\ \E ok \in BOOLEAN :
          IF ok
          THEN /\ outputFile' = "final"
               /\ pc' = "finish"
               /\ runError' = runError
          ELSE /\ outputFile' = outputFile
               /\ pc' = "except"
               /\ runError' = "merge_partial"
    /\ UNCHANGED <<fileAtStart, outcome, exitCode, runVars, tempDir,
                   registered, flagVars>>
    /\ UNCHANGED otherVars

\* lines 862-866 and the end of the with block
Finish ==
    /\ pc = "finish"
    /\ outcome' = "success"
    /\ registered' = registered \ {TempDirName}
    /\ tempDir' = TemporaryDirectoryExit(tempDir)
    /\ pc' = "returned"
    /\ UNCHANGED <<outputFile, fileAtStart, runError, exitCode, runVars,
                   flagVars>>
    /\ UNCHANGED otherVars

\* lines 868-882: the exception left the with block (directory removed) and
\* reached `except ffmpeg.Error` / `except Exception`
HandleException ==
    /\ pc = "except"
    /\ tempDir' = TemporaryDirectoryExit(tempDir)
    /\ outputFile' = RemoveOutput(outputFile)
    /\ registered' = registered \ {TempDirName}
    /\ outcome' = "error"
    /\ pc' = "returned"
    /\ UNCHANGED <<fileAtStart, runError, exitCode, runVars, flagVars>>
    /\ UNCHANGED otherVars

\* archive_events_for_date returned; archive_mode and main return
MainReturns ==
    /\ pc = "returned"
    /\ exitCode' = 0
    /\ pc' = "exiting"
    /\ UNCHANGED <<outputFile, fileAtStart, outcome, runError, runVars,
                   tempDir, registered, flagVars>>
    /\ UNCHANGED otherVars

\* interpreter shutdown: atexit runs cleanup_temp_files
AtExit ==
    /\ pc = "exiting"
    /\ CleanupTempFiles
    /\ pc' = "exited"
    /\ UNCHANGED <<outputFile, fileAtStart, outcome, runError, exitCode,
                   runVars, flagVars>>
    /\ UNCHANGED otherVars

\* the program is started again with the same parameters
NewRun ==
    /\ pc = "exited"
    /\ fileAtStart' = outputFile
    /\ pc' = "gate"
    /\ outcome' = "running"
    /\ runError' = "none"
    /\ exitCode' = -1
    /\ eventsJson' = <<>>
    /\ clips' = <<>>
    /\ next' = 0
    /\ errorType' = "none"
    /\ failedStep' = "none"
    /\ pscRaised' = "none"
    /\ counters' = <<>>
    /\ successful_clips' = <<>>
    /\ concatList' = <<>>
    /\ chapters' = <<>>
    /\ tempConcat' = None
    /\ registered' = {}
    /\ params' = None
    /\ didQuery' = FALSE
    /\ didDownload' = FALSE
    /\ didEngine' = FALSE
    /\ madeTemp' = FALSE
    /\ concatInvoked' = FALSE
    /\ mergeInvoked' = FALSE
    /\ UNCHANGED <<outputFile, tempDir>>
    /\ UNCHANGED otherVars

Next ==
    \/ Gate
    \/ QueryFails
    \/ Query
    \/ MakeTempDir
    \/ ProcessClip
    \/ ProcessClipsReturn
    \/ CheckResults
    \/ Assemble
    \/ ConcatenateVideos
    \/ AddMetadataStart
    \/ AddMetadataEnd
    \/ Finish
    \/ HandleException
    \/ MainReturns
    \/ AtExit
    \/ NewRun

Spec == Init /\ [][Next]_vars

\* ========================================= grabit.py, SIGINT and SIGTERM
\* Python runs signal_handler in the main thread, between two steps of
\* whatever the main thread was doing; a signal that arrives while a handler
\* runs starts a nested call of the handler on top of it.
MaxSignals == 2

\* one catalog per length and two outcomes per clip are enough here
SigCatalogs == {[i \in 1..n |-> [id |-> i, start_time |-> 1]] : n \in 0..MaxClips}
SigClipInputs == {[fault |-> NoFault, duration |-> 20005],
                  [fault |-> <<"download_clip", "RequestException">>,
                   duration |-> NoneDur]}

InitSignal == Init

\* the main thread runs the program itself, no handler is active
MainThread == handlers = <<>>

\* positions from which the interpreter still runs code of main()
Interruptible ==
    pc \in {"archive_mode", "gate", "query", "mktemp", "process", "check",
            "assemble", "concat", "merge", "merging", "finish", "except",
            "returned"}

\* positions inside `with tempfile.TemporaryDirectory()`; at "except" the
\* exception is still on its way out of the block
InWithBlock ==
    pc \in {"process", "check", "assemble", "concat", "merge", "merging",
            "finish", "except"}

Top == handlers[Len(handlers)]
SetTop(at) == [handlers EXCEPT ![Len(handlers)] = at]

\* SIGINT or SIGTERM is delivered: signal_handler is entered
Signal ==
    /\ Interruptible
    /\ Len(handlers) < MaxSignals
    /\ handlers' = Append(handlers, "start")
    /\ UNCHANGED <<grabitVarsNoSig, cleanupFailed, poolVars, rangeVars, pathVars>>

\* cleanup_temp_files, lines 142-144: the copy of the set and the test
CleanupLook ==
    /\ handlers # <<>>
    /\ Top = "start"
    /\ handlers' = SetTop(IF TempDirName \in registered /\ TempDirExists(tempDir)
                          THEN "rmtree" ELSE "removed")
    /\ UNCHANGED <<grabitVarsNoSig, cleanupFailed, poolVars, rangeVars, pathVars>>

\* line 145: shutil.rmtree(temp_dir); a directory that is gone makes it raise,
\* and line 147 logs the failure
CleanupRmtree ==
    /\ handlers # <<>>
    /\ Top = "rmtree"
    /\ tempDir' = FALSE
    /\ cleanupFailed' = (cleanupFailed \/ ~tempDir)
    /\ handlers' = SetTop("removed")
    /\ UNCHANGED <<pc, outputFile, fileAtStart, outcome, runError, exitCode,
                   runVars, registered, flagVars, poolVars, rangeVars, pathVars>>

\* line 150: _temp_directories.clear()
CleanupClear ==
    /\ handlers # <<>>
    /\ Top = "removed"
    /\ registered' = {}
    /\ handlers' = SetTop("cleared")
    /\ UNCHANGED <<pc, outputFile, fileAtStart, outcome, runError, exitCode,
                   runVars, tempDir, flagVars, cleanupFailed, poolVars,
                   rangeVars, pathVars>>

\* faulty variant: the handler returns to the interrupted code
SysExitReturns ==
    /\ handlers # <<>>
    /\ Top = "cleared"
    /\ handlers' = SubSeq(handlers, 1, Len(handlers) - 1)
    /\ outcome' = "interrupted"
    /\ UNCHANGED <<pc, outputFile, fileAtStart, runError, exitCode, runVars,
                   tempDir, registered, flagVars, cleanupFailed, poolVars,
                   rangeVars, pathVars>>

\* line 167: sys.exit(0). SystemExit leaves every handler call on the stack
\* and then the interrupted code; no except clause of the program catches it,
\* the with block (if the run is inside it) removes the directory
SysExit ==
    /\ handlers # <<>>
    /\ Top = "cleared"
    /\ handlers' = <<>>
    /\ tempDir' = IF InWithBlock THEN TemporaryDirectoryExit(tempDir) ELSE tempDir
    /\ outcome' = "interrupted"
    /\ exitCode' = 0
    /\ pc' = "exiting"
    /\ UNCHANGED <<outputFile, fileAtStart, runError, runVars, registered,
                   flagVars, cleanupFailed, poolVars, rangeVars, pathVars>>

NextSignal ==
    \/ MainThread /\ Gate
    \/ MainThread /\ QueryFails
    \/ MainThread /\ QueryFrom(SigCatalogs)
    \/ MainThread /\ MakeTempDir
    \/ MainThread /\ ProcessClipFrom(SigClipInputs)
    \/ MainThread /\ ProcessClipsReturn
    \/ MainThread /\ CheckResults
    \/ MainThread /\ Assemble
    \/ MainThread /\ ConcatenateVideos
    \/ MainThread /\ AddMetadataStart
    \/ MainThread /\ AddMetadataEnd
    \/ MainThread /\ Finish
    \/ MainThread /\ HandleException
    \/ MainThread /\ MainReturns
    \/ AtExit
    \/ Signal
    \/ CleanupLook
    \/ CleanupRmtree
    \/ CleanupClear
    \/ SysExit

SpecSignal == InitSignal /\ [][NextSignal]_vars

\* the interpreter keeps running the handler it entered, and the exit
\* handlers once the main thread is done
SpecSignalFair ==
    /\ SpecSignal
    /\ WF_vars(CleanupLook)
    /\ WF_vars(CleanupRmtree)
    /\ WF_vars(CleanupClear)
    /\ WF_vars(SysExit)
    /\ WF_vars(AtExit)

\* ============================================ grabit.py, archive_mode
\* A part of --date-range is written <<year, month, day>>; a datetime is a
\* record with the fields year, month, day.
MaxRangeDays == 3

\* faulty variant: the loop stops one day early
LoopContinuesStrict(cur, end) == DateLess(cur, end)

\* line 945: while current_date <= end_date
LoopContinues(cur, end) == ~DateLess(end, cur)

\* the dates tried: around a year end, a leap day, a non-leap February, and
\* one that is not a calendar day
DateArgs == {<<2023, 12, 29>>, <<2023, 12, 30>>, <<2023, 12, 31>>,
             <<2024, 1, 1>>, <<2024, 1, 2>>,
             <<2024, 2, 28>>, <<2024, 2, 29>>, <<2024, 3, 1>>,
             <<2024, 3, 9>>, <<2024, 3, 10>>, <<2024, 3, 11>>,
             <<2023, 2, 28>>, <<2023, 3, 1>>, <<2023, 2, 29>>}

RECURSIVE WithinDays(_, _, _)
WithinDays(a, b, n) ==
    \/ a = b
    \/ n > 0 /\ WithinDays(AddDay(a), b, n - 1)

\* values of date_range.split(':'): two parts, or a wrong number of parts
RangeArgs ==
    {<<a, b>> : a \in DateArgs, b \in DateArgs} \cup {<<a>> : a \in DateArgs}
RangeInputs ==
    {r \in RangeArgs :
        \/ Len(r) # 2
        \/ ~ValidDate(r[1])
        \/ ~ValidDate(r[2])
        \/ DateLess(Strptime(r[2]), Strptime(r[1]))
        \/ WithinDays(Strptime(r[1]), Strptime(r[2]), MaxRangeDays)}

\* the catalog of one day: no event or one event
RangeCatalogs == {<<>>, <<[id |-> 1, start_time |-> 1]>>}

InitRangeFrom(inputs) ==
    /\ PoolIdle
    /\ PathIdle
    /\ date_range \in inputs
    /\ start_date = None
    /\ end_date = None
    /\ current_date = None
    /\ started = <<>>
    /\ rpc = "parse"
    /\ pc = "archive_mode"
    /\ outputFile = "none"
    /\ fileAtStart = outputFile
    /\ outcome = "running"
    /\ runError = "none"
    /\ exitCode = -1
    /\ eventsJson = <<>>
    /\ clips = <<>>
    /\ next = 0
    /\ errorType = "none"
    /\ failedStep = "none"
    /\ pscRaised = "none"
    /\ counters = <<>>
    /\ successful_clips = <<>>
    /\ concatList = <<>>
    /\ chapters = <<>>
    /\ tempConcat = None
    /\ tempDir = FALSE
    /\ registered = {}
    /\ params = None
    /\ didQuery = FALSE
    /\ didDownload = FALSE
    /\ didEngine = FALSE
    /\ madeTemp = FALSE
    /\ concatInvoked = FALSE
    /\ mergeInvoked = FALSE
    /\ handlers = <<>>
    /\ cleanupFailed = FALSE

InitRange == InitRangeFrom(RangeInputs)

\* lines 937-943: split, strptime twice, start_date > end_date. Every
\* ValueError is re-raised at line 953 and main answers with parser.error,
\* which ends the process with status 2
ParseRange ==
    /\ pc = "archive_mode"
    /\ rpc = "parse"
    /\ IF /\ Len(date_range) = 2
          /\ ValidDate(date_range[1])
          /\ ValidDate(date_range[2])
          /\ ~DateLess(Strptime(date_range[2]), Strptime(date_range[1]))
       THEN /\ start_date' = Strptime(date_range[1])
            /\ end_date' = Strptime(date_range[2])
            /\ current_date' = Strptime(date_range[1])
            /\ rpc' = "loop"
            /\ UNCHANGED <<pc, exitCode, runError>>
       ELSE /\ rpc' = "error"
            /\ runError' = "ValueError"
            /\ exitCode' = 2
            /\ pc' = "exiting"
            /\ UNCHANGED <<start_date, end_date, current_date>>
    /\ UNCHANGED <<outputFile, fileAtStart, outcome, runVars, tempDir,
                   registered, flagVars, date_range, started, sigVars, poolVars, pathVars>>

\* lines 945-948: the loop test and the call of archive_events_for_date for
\* date_str; the output path of that day holds a file or not
StartDay ==
    /\ pc = "archive_mode"
    /\ rpc = "loop"
    /\ LoopContinues(current_date, end_date)
    /\ started' = Append(started, Strftime(current_date))
    /\ rpc' = "running"
    /\ outputFile' \in {"none", "old"}
    /\ fileAtStart' = outputFile'
    /\ pc' = "gate"
    /\ outcome' = "running"
    /\ runError' = "none"
    /\ eventsJson' = <<>>
    /\ clips' = <<>>
    /\ next' = 0
    /\ errorType' = "none"
    /\ failedStep' = "none"
    /\ pscRaised' = "none"
    /\ counters' = <<>>
    /\ successful_clips' = <<>>
    /\ concatList' = <<>>
    /\ chapters' = <<>>
    /\ tempConcat' = None
    /\ params' = None
    /\ didQuery' = FALSE
    /\ didDownload' = FALSE
    /\ didEngine' = FALSE
    /\ madeTemp' = FALSE
    /\ concatInvoked' = FALSE
    /\ mergeInvoked' = FALSE
    /\ UNCHANGED <<exitCode, tempDir, registered, date_range, start_date,
                   end_date, current_date, sigVars, poolVars, pathVars>>

\* line 945 is false: the loop and archive_mode are done
LoopEnds ==
    /\ pc = "archive_mode"
    /\ rpc = "loop"
    /\ ~LoopContinues(current_date, end_date)
    /\ rpc' = "done"
    /\ pc' = "returned"
    /\ UNCHANGED <<outputFile, fileAtStart, outcome, runError, exitCode,
                   runVars, tempDir, registered, flagVars, date_range,
                   start_date, end_date, current_date, started, sigVars,
                   poolVars, pathVars>>

\* line 949: the call returned, current_date += timedelta(days=1)
DayReturns ==
    /\ rpc = "running"
    /\ pc = "returned"
    /\ current_date' = AddDay(current_date)
    /\ rpc' = "loop"
    /\ pc' = "archive_mode"
    /\ UNCHANGED <<outputFile, fileAtStart, outcome, runError, exitCode,
                   runVars, tempDir, registered, flagVars, date_range,
                   start_date, end_date, started, sigVars, poolVars, pathVars>>

NextRange ==
    \/ ParseRange
    \/ StartDay
    \/ LoopEnds
    \/ DayReturns
    \/ Gate
    \/ QueryFails
    \/ QueryFrom(RangeCatalogs)
    \/ MakeTempDir
    \/ ProcessClipFrom(SigClipInputs)
    \/ ProcessClipsReturn
    \/ CheckResults
    \/ Assemble
    \/ ConcatenateVideos
    \/ AddMetadataStart
    \/ AddMetadataEnd
    \/ Finish
    \/ HandleException
    \/ rpc = "done" /\ MainReturns
    \/ AtExit

SpecRange == InitRange /\ [][NextRange]_vars

\* archive_mode goes on with its loop when a call has returned
SpecRangeFair ==
    /\ SpecRange
    /\ WF_vars(DayReturns)
    /\ WF_vars(StartDay)

\* ------------------------------------- archive_mode, SIGINT and SIGTERM
\* ranges that start on one day, and one reversed range
SigRangeInputs ==
    {r \in RangeInputs : Len(r) = 2 /\ r[1] = <<2024, 2, 28>>}

InitRangeSignal == InitRangeFrom(SigRangeInputs)

NextRangeSignal ==
    \/ MainThread /\ ParseRange
    \/ MainThread /\ StartDay
    \/ MainThread /\ LoopEnds
    \/ MainThread /\ DayReturns
    \/ MainThread /\ Gate
    \/ MainThread /\ QueryFails
    \/ MainThread /\ QueryFrom(RangeCatalogs)
    \/ MainThread /\ MakeTempDir
    \/ MainThread /\ ProcessClipFrom(SigClipInputs)
    \/ MainThread /\ ProcessClipsReturn
    \/ MainThread /\ CheckResults
    \/ MainThread /\ Assemble
    \/ MainThread /\ ConcatenateVideos
    \/ MainThread /\ AddMetadataStart
    \/ MainThread /\ AddMetadataEnd
    \/ MainThread /\ Finish
    \/ MainThread /\ HandleException
    \/ MainThread /\ rpc = "done" /\ MainReturns
    \/ AtExit
    \/ Signal
    \/ CleanupLook
    \/ CleanupRmtree
    \/ CleanupClear
    \/ SysExit

SpecRangeSignal == InitRangeSignal /\ [][NextRangeSignal]_vars

\* ===================================================== optfrigate2.py
\* responses of fetchClipInfo: events in any order of start_time
PoolCatalogs == UNION {{[i \in 1..n |-> [id |-> i, start_time |-> f[i]]] : f \in Events(n)} : n \in 0..MaxPoolClips}

\* idList = [(eventUrl + x["id"] + "/clip.mp4", idx) for idx, x in enumerate(clipList)]
MakeIdList(list) == [k \in 1..Len(list) |-> [url |-> list[k].id, idx |-> k - 1]]

\* chunks = [idList[i : i + chunk_size] for i in range(0, len(idList), chunk_size)]
Min(a, b) == IF a < b THEN a ELSE b

\* faulty variant: only full chunks are cut, the rest of the list is lost
MakeChunksFullOnly(list) ==
    [c \in 1..(Len(list) \div chunk_size) |->
        SubSeq(list, (c - 1) * chunk_size + 1, c * chunk_size)]

MakeChunks(list) ==
    [c \in 1..((Len(list) + chunk_size - 1) \div chunk_size) |->
        SubSeq(list, (c - 1) * chunk_size + 1, Min(c * chunk_size, Len(list)))]

\* what process_clip can do with one clip_info
Stream(clip_info) == <<"stream", clip_info.url>>
Raised == <<"raise">>
ClipResults(clip_info) == {Stream(clip_info), None, Raised}

\* faulty variant: results are taken as the futures complete (as_completed)
MapResultsAsCompleted(res, order) == [k \in 1..Len(res) |-> res[order[k]]]

\* executor.map yields the results in the order of its input
MapResults(res, order) == [k \in 1..Len(res) |-> res[k]]

\* faulty variant: a new thread for every work item
WorkerIdleAlways(running) == TRUE

\* ThreadPoolExecutor: a work item starts only when fewer than max_workers
\* threads are busy
WorkerIdle(running) == running < PoolWorkers

Running == {k \in 1..Len(futures) : futures[k] = "running"}
Queued == {k \in 1..Len(futures) : futures[k] = "queued"}

\* archive_events_for_date has not been called
RunIdle ==
    /\ pc = "gate"
    /\ outputFile = "none"
    /\ fileAtStart = outputFile
    /\ outcome = "running"
    /\ runError = "none"
    /\ exitCode = -1
    /\ eventsJson = <<>>
    /\ clips = <<>>
    /\ next = 0
    /\ errorType = "none"
    /\ failedStep = "none"
    /\ pscRaised = "none"
    /\ counters = <<>>
    /\ successful_clips = <<>>
    /\ concatList = <<>>
    /\ chapters = <<>>
    /\ tempConcat = None
    /\ tempDir = FALSE
    /\ registered = {}
    /\ params = None
    /\ didQuery = FALSE
    /\ didDownload = FALSE
    /\ didEngine = FALSE
    /\ madeTemp = FALSE
    /\ concatInvoked = FALSE
    /\ mergeInvoked = FALSE
    /\ handlers = <<>>
    /\ cleanupFailed = FALSE

InitPool ==
    /\ PoolIdle
    /\ RangeIdle
    /\ PathIdle
    /\ RunIdle

\* lines 134-149: fetch, sort, number and chunk the clips; a failed request
\* raises out of the script
FetchClipInfo ==
    /\ ppc = "fetch"
    /\ \E ok \in BOOLEAN, jsonbody \in PoolCatalogs :
          IF ok
          THEN /\ clipList' = SortByStartTime(jsonbody)
               /\ idList' = MakeIdList(clipList')
               /\ chunks' = MakeChunks(idList')
               /\ chunkNo' = 1
               /\ ppc' = "loop"
          ELSE /\ ppc' = "crashed"
               /\ UNCHANGED <<clipList, idList, chunks, chunkNo>>
    /\ UNCHANGED <<futures, results, arrival, clip_streams, temp_files, encoded,
                   finalJoin>>
    /\ UNCHANGED grabitVars

\* process_chunk, lines 97-100: executor.map submits every clip of the chunk
SubmitChunk ==
    /\ ppc = "loop"
    /\ chunkNo <= Len(chunks)
    /\ futures' = [k \in 1..Len(chunks[chunkNo]) |-> "queued"]
    /\ results' = [k \in 1..Len(chunks[chunkNo]) |-> None]
    /\ arrival' = <<>>
    /\ ppc' = "pool"
    /\ UNCHANGED <<clipList, idList, chunks, chunkNo, clip_streams, temp_files,
                   encoded, finalJoin>>
    /\ UNCHANGED grabitVars

\* an idle worker thread takes the oldest queued work item
WorkerStart ==
    /\ ppc = "pool"
    /\ Queued # {}
    /\ WorkerIdle(Cardinality(Running))
    /\ LET k == CHOOSE q \in Queued : \A o \in Queued : q <= o
       IN futures' = [futures EXCEPT ![k] = "running"]
    /\ UNCHANGED <<ppc, clipList, idList, chunks, chunkNo, results, arrival,
                   clip_streams, temp_files, encoded, finalJoin>>
    /\ UNCHANGED grabitVars

\* process_clip, lines 77-93, ends in some worker: a stream, None, or an
\* exception other than ffmpeg.Error, which the future keeps
WorkerFinish ==
    /\ ppc = "pool"
    /\ \E k \in Running :
          \E r \in ClipResults(chunks[chunkNo][k]) :
             /\ futures' = [futures EXCEPT ![k] = "done"]
             /\ results' = [results EXCEPT ![k] = r]
             /\ arrival' = Append(arrival, k)
    /\ UNCHANGED <<ppc, clipList, idList, chunks, chunkNo, clip_streams,
                   temp_files, encoded, finalJoin>>
    /\ UNCHANGED grabitVars

\* lines 98-105 and the end of the with block: list() has drained the map
\* iterator and the executor has shut down; a kept exception is re-raised
CollectResults ==
    /\ ppc = "pool"
    /\ \A k \in 1..Len(futures) : futures[k] = "done"
    /\ IF \E k \in 1..Len(results) : results[k] = Raised
       THEN /\ ppc' = "crashed"
            /\ clip_streams' = clip_streams
       ELSE /\ ppc' = "encode"
            /\ clip_streams' = MapResults(results, arrival)
    /\ UNCHANGED <<clipList, idList, chunks, chunkNo, futures, results, arrival,
                   temp_files, encoded, finalJoin>>
    /\ UNCHANGED grabitVars

\* lines 107-132 and 153: join the valid clips into temp_{chunk_id}.mp4; a
\* failed encode is printed and the name is returned and appended all the
\* same.  ffmpeg.concat() of no stream raises ValueError.
EncodeChunk ==
    /\ ppc = "encode"
    /\ LET validclips == SelectSeq(clip_streams, LAMBDA c : c # None)
       IN IF validclips = <<>>
          THEN /\ ppc' = "crashed"
               /\ UNCHANGED <<temp_files, encoded, chunkNo>>
          ELSE /\ \E ok \in BOOLEAN :
                     encoded' = Append(encoded,
                         [ok |-> ok,
                          streams |-> IF ok THEN validclips ELSE <<>>])
               /\ temp_files' = Append(temp_files, chunkNo - 1)
               /\ chunkNo' = chunkNo + 1
               /\ ppc' = "loop"
    /\ UNCHANGED <<clipList, idList, chunks, futures, results, arrival,
                   clip_streams, finalJoin>>
    /\ UNCHANGED grabitVars

\* lines 155-170: join the chunk files
FinalJoin ==
    /\ ppc = "loop"
    /\ chunkNo > Len(chunks)
    /\ IF temp_files = <<>>
       THEN /\ ppc' = "crashed"
            /\ finalJoin' = finalJoin
       ELSE /\ ppc' = "done"
            /\ finalJoin' = temp_files
    /\ UNCHANGED <<clipList, idList, chunks, chunkNo, futures, results, arrival,
                   clip_streams, temp_files, encoded>>
    /\ UNCHANGED grabitVars

NextPool ==
    \/ FetchClipInfo
    \/ SubmitChunk
    \/ WorkerStart
    \/ WorkerFinish
    \/ CollectResults
    \/ EncodeChunk
    \/ FinalJoin

SpecPool == InitPool /\ [][NextPool]_vars

\* ============================ grabit.py, the output path of a run
\* A string is a sequence of characters; None (an absent or empty zone or
\* label) is the empty sequence.
MaxArchives == 2         \* files in the output directory

Dates == {<<"2", "8">>}
Cameras == {<<"a">>, <<"a", "-", "b">>}
ZonesAndLabels == {None, <<"b">>}
Formats == {<<"m", "p", "4">>, <<"w", "e", "b", "m">>}
RunArgs ==
    [date : Dates, camera : Cameras, zone : ZonesAndLabels,
     label : ZonesAndLabels, format : Formats]

\* '-'.join(components)
RECURSIVE Join(_)
Join(components) ==
    IF Len(components) = 1 THEN components[1]
    ELSE components[1] \o <<"-">> \o Join(Tail(components))

\* lines 799-806: components, output_filename (output_dir is the same for
\* every run)
OutputPath(a) ==
    LET components == <<a.date, a.camera>>
                      \o (IF a.zone # None THEN <<a.zone>> ELSE <<>>)
                      \o (IF a.label # None THEN <<a.label>> ELSE <<>>)
    IN Join(components) \o <<".">> \o a.format

PathsOnDisk == {f.path : f \in disk}

InitPath ==
    /\ PoolIdle
    /\ RangeIdle
    /\ RunIdle
    /\ args \in RunArgs
    /\ disk = {}
    /\ apc = "gate"

\* line 809: os.path.exists(output_path); the run is skipped or goes on
PathGate ==
    /\ apc = "gate"
    /\ apc' = IF OutputPath(args) \in PathsOnDisk THEN "skipped" ELSE "run"
    /\ UNCHANGED <<args, disk>>
    /\ UNCHANGED <<grabitVarsNoSig, sigVars, rangeVars, poolVars>>

\* lines 814-866: the run ends with the archive written at output_path
ArchiveWritten ==
    /\ apc = "run"
    /\ Cardinality(disk) < MaxArchives
    /\ disk' = disk \cup {[path |-> OutputPath(args), by |-> args]}
    /\ apc' = "end"
    /\ UNCHANGED args
    /\ UNCHANGED <<grabitVarsNoSig, sigVars, rangeVars, poolVars>>

\* the run ends without an archive (no events, abort, error)
NoArchive ==
    /\ apc = "run"
    /\ apc' = "end"
    /\ UNCHANGED <<args, disk>>
    /\ UNCHANGED <<grabitVarsNoSig, sigVars, rangeVars, poolVars>>

\* the program is started again, with any arguments
NextInvocation ==
    /\ apc \in {"skipped", "end"}
    /\ args' \in RunArgs
    /\ apc' = "gate"
    /\ UNCHANGED disk
    /\ UNCHANGED <<grabitVarsNoSig, sigVars, rangeVars, poolVars>>

NextPath ==
    \/ PathGate
    \/ ArchiveWritten
    \/ NoArchive
    \/ NextInvocation

SpecPath == InitPath /\ [][NextPath]_vars

\* ================================================================ claims
\* Definitions used by the claims, written from the claims' words and not
\* from the operators above.
Failed(k) == clips[k].pip_path = None
Succeeded(k) == clips[k].pip_path # None
FailedCount == Cardinality({k \in 1..Len(clips) : Failed(k)})
SucceededCount == Cardinality({k \in 1..Len(clips) : Succeeded(k)})
RunEnded == pc \in {"returned", "exiting", "exited"}
\* process_clips has returned and the two abort checks have been made
PastCheck == clips # <<>> /\ pc \notin {"gate", "query", "mktemp", "process", "check"}
Aborted == outcome \in {"NoClipsProcessed", "TooManyFailures"}
\* files.txt and chapters.txt have been written
PastAssemble == PastCheck /\ pc # "assemble" /\ ~Aborted

RECURSIVE SucceededPathsFrom(_)
SucceededPathsFrom(k) ==
    IF k > Len(clips) THEN <<>>
    ELSE (IF Succeeded(k) THEN <<(<<"pip", clips[k].id>>)>> ELSE <<>>)
         \o SucceededPathsFrom(k + 1)
SucceededPaths == SucceededPathsFrom(1)

Occurrences(seq, x) == Cardinality({i \in 1..Len(seq) : seq[i] = x})
StartTimeOfId(id) == clips[CHOOSE k \in 1..Len(clips) : clips[k].id = id].start_time

\* C1: a run that starts with no file at the output path and does not end in
\* success (query error, no clip succeeded, too many failed, concat failed,
\* merge failed after partly writing the output) ends with no file there.
C1_FailedRunLeavesNoOutput ==
    (fileAtStart = "none" /\ RunEnded /\ outcome # "success")
        => outputFile = "none"

C1_Witness ==
    /\ fileAtStart = "none"
    /\ pc = "returned"
    /\ outcome = "error"
    /\ runError = "merge_partial"
    /\ outputFile = "none"

\* C2: when a file exists at the output path as the run starts, the run makes
\* no catalog query and no download, creates no temporary directory, starts
\* no engine process and leaves the file as it was; so a second run after a
\* successful first run does nothing.
C2_ExistingOutputIsNoOp ==
    fileAtStart # "none"
        => /\ ~didQuery
           /\ ~didDownload
           /\ ~madeTemp
           /\ ~tempDir
           /\ ~didEngine
           /\ outputFile = fileAtStart
           /\ (RunEnded => outcome = "skipped")

C2_Witness ==
    /\ fileAtStart = "final"
    /\ pc = "exited"
    /\ outcome = "skipped"
    /\ outputFile = "final"

\* C3: more than 2 clips Failed and at least one Succeeded: the run aborts as
\* TooManyFailures, with neither concat nor merge invoked and no output file.
C3_TooManyFailuresAborts ==
    (PastCheck /\ FailedCount > 2 /\ SucceededCount >= 1)
        => /\ outcome = "TooManyFailures"
           /\ pc \in {"exiting", "exited"}
           /\ ~concatInvoked
           /\ ~mergeInvoked
           /\ outputFile = "none"

C3_Witness ==
    /\ pc = "exited"
    /\ outcome = "TooManyFailures"
    /\ FailedCount = 3
    /\ SucceededCount = 1

\* C4: at most 2 clips Failed and at least one Succeeded: the run is not
\* aborted; concat and merge work on exactly the Succeeded clips.
C4_WithinThresholdProceeds ==
    (PastCheck /\ FailedCount <= 2 /\ SucceededCount >= 1)
        => /\ ~Aborted
           /\ exitCode # 1
           /\ pc # "assemble" => concatList = SucceededPaths
           /\ pc \notin {"assemble", "concat"} => concatInvoked
           /\ tempConcat # None => tempConcat = SucceededPaths
           /\ outputFile = "final" => (mergeInvoked /\ tempConcat = SucceededPaths)

C4_Witness ==
    /\ pc = "returned"
    /\ outcome = "success"
    /\ outputFile = "final"
    /\ FailedCount = 2
    /\ SucceededCount >= 1

\* C5: every clip of a non-empty catalog Failed: the run aborts as
\* NoClipsProcessed and produces no output, also when more than 2 clips failed.
C5_ZeroSuccessAborts ==
    (PastCheck /\ SucceededCount = 0)
        => /\ outcome = "NoClipsProcessed"
           /\ pc \in {"exiting", "exited"}
           /\ ~concatInvoked
           /\ ~mergeInvoked
           /\ outputFile = "none"

C5_Witness ==
    /\ pc = "exited"
    /\ outcome = "NoClipsProcessed"
    /\ Len(clips) > FailureThreshold
    /\ FailedCount = Len(clips)

\* C6: the chapters written by create_chapters_file are contiguous: the first
\* starts at 0, each START is the previous END, and END >= START.  Checked on
\* chapters.txt of the run and on the call with the whole clip list (failed
\* clips included), as newlabelgrab makes it.
Contiguous(ch) ==
    /\ ch # <<>> => ch[1].START = 0
    /\ \A i \in 1..Len(ch) :
          /\ ch[i].END >= ch[i].START
          /\ i > 1 => ch[i].START = ch[i - 1].END

C6_ChaptersContiguous ==
    /\ Contiguous(chapters)
    /\ Contiguous(CreateChaptersFile(clips))

C6_Witness ==
    /\ Len(chapters) >= 3
    /\ chapters[1].END > 0
    /\ chapters[2].END > chapters[2].START
    /\ chapters[3].START = chapters[1].END + (chapters[2].END - chapters[2].START)

\* C7: the number of chapters equals the number of concat entries and the
\* i-th chapter comes from the clip of the i-th concat entry, also for clips
\* whose probed duration is 0 or missing.
C7_ChaptersMatchConcat ==
    PastAssemble
        => /\ Len(chapters) = Len(concatList)
           /\ \A i \in 1..Len(chapters) :
                 i <= Len(concatList) => concatList[i] = <<"pip", chapters[i].title>>

\* C8: the concat list holds the rendered path of every Succeeded clip once
\* and of no Failed clip, in ascending start_time order (catalog order among
\* equal start times).
C8_ConcatListExact ==
    PastAssemble
        => /\ \A k \in 1..Len(clips) :
                 Occurrences(concatList, <<"pip", clips[k].id>>)
                     = (IF Succeeded(k) THEN 1 ELSE 0)
           /\ \A i \in 1..Len(concatList) :
                 \E k \in 1..Len(clips) : concatList[i] = <<"pip", clips[k].id>>
           /\ \A i, j \in 1..Len(concatList) :
                 i < j =>
                    \/ StartTimeOfId(concatList[i][2]) < StartTimeOfId(concatList[j][2])
                    \/ /\ StartTimeOfId(concatList[i][2]) = StartTimeOfId(concatList[j][2])
                       /\ concatList[i][2] < concatList[j][2]

C8_Witness ==
    /\ PastAssemble
    /\ Len(concatList) >= 2
    /\ FailedCount >= 1
    /\ \E i \in 1..(Len(concatList) - 1) : concatList[i][2] > concatList[i + 1][2]

\* C9: for every completion order of the workers, the results collected for a
\* chunk are in the order of the chunk's input, and the chunks' results are
\* appended in chunk order, so the whole result sequence follows the
\* start_time-sorted catalog.
RECURSIVE FlattenEncoded(_)
FlattenEncoded(k) ==
    IF k > Len(encoded) THEN <<>>
    ELSE encoded[k].streams \o FlattenEncoded(k + 1)
PositionInClipList(url) == CHOOSE k \in 1..Len(clipList) : clipList[k].id = url

C9_PoolKeepsCatalogOrder ==
    /\ \A i, j \in 1..Len(clipList) :
          i < j => clipList[i].start_time <= clipList[j].start_time
    /\ ppc = "encode"
         => /\ Len(clip_streams) = Len(chunks[chunkNo])
            /\ \A k \in 1..Len(clip_streams) :
                  clip_streams[k] # None
                     => clip_streams[k] = <<"stream", chunks[chunkNo][k].url>>
    /\ \A c \in 1..Len(temp_files) : temp_files[c] = c - 1
    /\ LET all == FlattenEncoded(1)
       IN \A i, j \in 1..Len(all) :
             i < j => PositionInClipList(all[i][2]) < PositionInClipList(all[j][2])

C9_Witness ==
    /\ ppc = "encode"
    /\ chunkNo = 2
    /\ Len(temp_files) = 1
    /\ arrival = <<2, 1>>
    /\ clip_streams[1] # None
    /\ clip_streams[2] # None
    /\ clipList[1].id > clipList[2].id

\* C10: a failure inside one clip (clip download, snapshot download, probe,
\* encode) becomes a Failed result of that clip only: process_single_clip
\* returns normally, nothing leaves process_clips, the other clips keep their
\* state and the loop moves on to the next clip.
C10_ClipFailureContained ==
    [][(pc = "process" /\ next <= Len(clips))
         => /\ pscRaised' = "none"
            /\ pc' = "process"
            /\ next' = next + 1
            /\ \A k \in 1..Len(clips) : k # next => clips'[k] = clips[k]
            /\ errorType' # "none"
                 => /\ clips'[next].download_path = None
                    /\ clips'[next].snapshot_path = None
                    /\ clips'[next].pip_path = None
            /\ errorType' = "none" => clips'[next].pip_path # None]_vars

C10_Witness ==
    /\ pc = "process"
    /\ next = 4
    /\ Succeeded(1)
    /\ Failed(2)
    /\ Succeeded(3)
    /\ errorType = "none"
    /\ failedStep = "none"

\* C11: a run that started with no file at the output path and is ended by
\* SIGINT or SIGTERM leaves no partial file at the output path once the
\* process has exited.
C11_InterruptLeavesNoPartialOutput ==
    (fileAtStart = "none" /\ outcome = "interrupted" /\ pc = "exited")
        => outputFile # "partial"

CleanupDone == ~tempDir /\ registered = {}

C13_NestedSignalsSafe ==
    /\ [](/\ ~cleanupFailed
          /\ (handlers # <<>> /\ Top = "cleared") => CleanupDone
          /\ outcome = "interrupted"
                => /\ pc \in {"exiting", "exited"}
                   /\ exitCode = 0
                   /\ CleanupDone)
    /\ (Len(handlers) >= 2) ~> (pc = "exited" /\ outcome = "interrupted")

C13_Witness ==
    /\ Len(handlers) = 2
    /\ handlers[1] = "removed"
    /\ handlers[2] = "cleared"
    /\ madeTemp
    /\ CleanupDone

\* C14: a failed catalog query ends the run with the error propagated: no
\* clip is downloaded or processed, no temporary directory is created and no
\* output file is produced.
C14_QueryErrorPropagates ==
    runError = "RequestException"
        => /\ outcome = "query_error"
           /\ pc \in {"exiting", "exited"}
           /\ exitCode = 1
           /\ clips = <<>>
           /\ ~didDownload
           /\ ~didEngine
           /\ ~madeTemp
           /\ ~tempDir
           /\ outputFile = "none"

C14_Witness ==
    /\ pc = "exited"
    /\ didQuery
    /\ outcome = "query_error"
    /\ exitCode = 1

\* C15: when the concat stage or the metadata-merge stage fails, the caller
\* sees a failed run: archive_events_for_date does not return normally, and
\* the process does not end with the status of a success.
FinalizationFailed == runError \in {"concat", "merge", "merge_partial"}

C15_FinalizationFailureSurfaced ==
    FinalizationFailed
        => /\ pc # "returned"
           /\ pc = "exited" => exitCode # 0

\* C16: whenever a file is at the output path because of the run, it is the
\* complete final container.
C16_OutputPublishedAtomically ==
    (fileAtStart = "none" /\ outputFile # "none") => outputFile = "final"

\* C17: a failed snapshot download alone leaves the clip Succeeded, rendered
\* without overlay, and not counted as Failed.
C17_SnapshotFailureDegrades ==
    (pc = "process" /\ next > 1 /\ failedStep = "download_snapshot")
        => /\ Succeeded(next - 1)
           /\ errorType = "none"

\* C18: with a date range S:E, S <= E, archive_mode calls the single-date
\* run for consecutive calendar days starting at S and never past E, each
\* once and in ascending order, and when every call has returned the days
\* are exactly S..E; with S > E it calls none and ends with an error.
DaysBeforeMonth(y, m) ==
    LET before == <<0, 31, 59, 90, 120, 151, 181, 212, 243, 273, 304, 334>>
    IN before[m] + (IF m > 2 /\ IsLeap(y) THEN 1 ELSE 0)

\* proleptic Gregorian day number of a <<year, month, day>>
Ordinal(part) ==
    LET y == part[1] - 1
    IN 365 * y + (y \div 4) - (y \div 100) + (y \div 400)
       + DaysBeforeMonth(part[1], part[2]) + part[3]

ProperRange ==
    /\ Len(date_range) = 2
    /\ ValidDate(date_range[1])
    /\ ValidDate(date_range[2])
    /\ Ordinal(date_range[1]) <= Ordinal(date_range[2])

ReversedRange ==
    /\ Len(date_range) = 2
    /\ ValidDate(date_range[1])
    /\ ValidDate(date_range[2])
    /\ Ordinal(date_range[1]) > Ordinal(date_range[2])

C18_RangeRunsEachDayOnce ==
    /\ ProperRange =>
          /\ rpc # "error"
          /\ \A i \in 1..Len(started) :
                /\ ValidDate(started[i])
                /\ Ordinal(started[i]) = Ordinal(date_range[1]) + i - 1
                /\ Ordinal(started[i]) <= Ordinal(date_range[2])
          /\ rpc = "done" =>
                Len(started) = Ordinal(date_range[2]) - Ordinal(date_range[1]) + 1
    /\ ReversedRange =>
          /\ started = <<>>
          /\ rpc \in {"parse", "error"}
          /\ rpc = "error" => exitCode = 2 /\ pc \in {"exiting", "exited"}

C18_Witness ==
    /\ rpc = "done"
    /\ pc = "exited"
    /\ date_range = <<(<<2024, 2, 28>>), (<<2024, 3, 1>>)>>
    /\ started = <<(<<2024, 2, 28>>), (<<2024, 2, 29>>), (<<2024, 3, 1>>)>>

\* C19: get_events_for_date returns the events of the response sorted
\* ascending by start_time, equal start times in the order of the response,
\* none dropped and none duplicated.
C19_EventsSortedStable ==
    pc \notin {"gate", "query"}
        => /\ Len(clips) = Len(eventsJson)
           /\ \A e \in 1..Len(eventsJson) :
                 Cardinality({k \in 1..Len(clips) :
                                 /\ clips[k].id = eventsJson[e].id
                                 /\ clips[k].start_time = eventsJson[e].start_time}) = 1
           /\ \A i, j \in 1..Len(clips) :
                 i < j =>
                    \/ clips[i].start_time < clips[j].start_time
                    \/ /\ clips[i].start_time = clips[j].start_time
                       /\ clips[i].id < clips[j].id

C19_Witness ==
    /\ pc = "mktemp"
    /\ Len(clips) >= 3
    /\ eventsJson[1].start_time > eventsJson[2].start_time
    /\ eventsJson[2].start_time = eventsJson[3].start_time
    /\ clips[1].id = 2
    /\ clips[2].id = 3
    /\ clips[3].id = 1

\* C20: a clip that process_single_clip has returned for has either all of
\* download_path, snapshot_path, pip_path and duration_sec set, or the three
\* paths all empty; no stage sees some but not all of the paths.
AllSet(c) ==
    /\ c.download_path # None
    /\ c.snapshot_path # None
    /\ c.pip_path # None
    /\ c.duration_sec # NoneDur
AllEmpty(c) ==
    /\ c.download_path = None
    /\ c.snapshot_path = None
    /\ c.pip_path = None

C20_PathsAllOrNone ==
    /\ \A k \in 1..Len(clips) :
          /\ AllSet(clips[k]) \/ AllEmpty(clips[k])
          /\ k >= next => AllEmpty(clips[k])
    /\ \A k \in 1..Len(successful_clips) : AllSet(successful_clips[k])

C20_Witness ==
    /\ pc = "concat"
    /\ Len(clips) >= 2
    /\ \E k \in 1..Len(clips) : AllSet(clips[k])
    /\ \E k \in 1..Len(clips) :
          AllEmpty(clips[k]) /\ clips[k].duration_sec = NoneDur
    /\ failedStep = "create_pip_video"

\* C21: chapter i of the successful clips starts at the sum of the whole
\* milliseconds of the clips before it and ends that clip's whole
\* milliseconds later; the last END is the total of the concat list.
FloorMs(d) == (d - (d % 10)) \div 10

RECURSIVE SumMs(_, _)
SumMs(cs, n) == IF n = 0 THEN 0 ELSE SumMs(cs, n - 1) + FloorMs(cs[n].duration_sec)

C21_ChapterBoundsAreSums ==
    PastAssemble
        => /\ Len(chapters) = Len(successful_clips)
           /\ \A i \in 1..Len(chapters) :
                 i <= Len(successful_clips) =>
                    /\ chapters[i].START = SumMs(successful_clips, i - 1)
                    /\ chapters[i].END = chapters[i].START
                                         + FloorMs(successful_clips[i].duration_sec)
           /\ chapters # <<>> =>
                 chapters[Len(chapters)].END
                    = SumMs(successful_clips, Len(successful_clips))

\* C22: from the moment signal_handler has finished, no clip is downloaded
\* or processed, no concat or merge is started and no further day's run is
\* started; the same holds while a handler call is still running.
SignalSeen == handlers # <<>> \/ outcome = "interrupted"

C22_NoWorkAfterInterrupt ==
    [][SignalSeen =>
          /\ next' = next
          /\ clips' = clips
          /\ didQuery' = didQuery
          /\ didDownload' = didDownload
          /\ didEngine' = didEngine
          /\ concatInvoked' = concatInvoked
          /\ mergeInvoked' = mergeInvoked
          /\ started' = started
          /\ outcome' = "interrupted" \/ handlers' # <<>>]_vars

C22_Witness ==
    /\ pc = "exited"
    /\ outcome = "interrupted"
    /\ rpc = "running"
    /\ started = <<(<<2024, 2, 28>>)>>
    /\ end_date = Strptime(<<2024, 3, 1>>)
    /\ clips # <<>>
    /\ next = 1
    /\ ~concatInvoked

RECURSIVE FlattenChunks(_)
FlattenChunks(cs) == IF cs = <<>> THEN <<>> ELSE Head(cs) \o FlattenChunks(Tail(cs))

C24_ChunksSequential ==
    /\ ppc # "fetch" =>
          /\ FlattenChunks(chunks) = idList
          /\ \A c \in 1..Len(chunks) :
                /\ Len(chunks[c]) \in 1..chunk_size
                /\ c < Len(chunks) => Len(chunks[c]) = chunk_size
    /\ ppc \in {"pool", "encode"} =>
          /\ chunkNo \in 1..Len(chunks)
          /\ Len(futures) = Len(chunks[chunkNo])
          /\ Len(encoded) = chunkNo - 1
          /\ temp_files = [c \in 1..(chunkNo - 1) |-> c - 1]

C24_Witness ==
    /\ ppc = "pool"
    /\ Len(idList) = chunk_size + 2
    /\ chunkNo = 2
    /\ Len(chunks[1]) = chunk_size
    /\ Len(chunks[2]) = 2
    /\ Running # {}
    /\ Len(encoded) = 1

\* C30: every chunk file given to the final join comes from a chunk encode
\* that succeeded; a chunk whose encode failed is not among the inputs.
C30_FinalJoinOnlyEncodedChunks ==
    finalJoin # None
        => \A i \in 1..Len(finalJoin) :
              \E c \in 1..Len(temp_files) :
                 /\ temp_files[c] = finalJoin[i]
                 /\ encoded[c].ok

\* C25: the query of the run for date d carries after = local midnight of d
\* and before = local midnight of the next calendar day, and the windows of
\* the days of a range abut: before of a day equals after of the next day.
LocalMidnight(part) ==
    (Ordinal(part) - Ordinal(<<1970, 1, 1>>)) * 86400
        + (IF part[1] = 2024 /\ Ordinal(part) > Ordinal(<<2024, 3, 10>>)
           THEN 14400 ELSE 18000)

\* the date string whose day number is one more
DayAfter(part) ==
    CHOOSE q \in {<<part[1], part[2], part[3] + 1>>,
                  <<part[1], part[2] + 1, 1>>,
                  <<part[1] + 1, 1, 1>>} :
        ValidDate(q) /\ Ordinal(q) = Ordinal(part) + 1

C25_QueryWindowsAbut ==
    /\ params # None =>
          /\ didQuery
          /\ params.after = LocalMidnight(RunDate)
          /\ params.before = LocalMidnight(DayAfter(RunDate))
          /\ params.after < params.before
    /\ \A i \in 1..Len(started) :
          i < Len(started) =>
             QueryParams(started[i]).before = QueryParams(started[i + 1]).after

C25_Witness ==
    /\ Len(started) = 2
    /\ started[1] = <<2024, 3, 10>>
    /\ started[2] = <<2024, 3, 11>>
    /\ didQuery
    /\ params.after = QueryParams(started[1]).before
    /\ params.after = QueryParams(started[1]).after + 82800

\* C26: in date-range mode with a proper range, a day whose run aborts does
\* not keep later days from being started: when the process has exited,
\* the run of every day of the range has been started.
C26_AbortedDayDoesNotStopRange ==
    (ProperRange /\ pc = "exited")
        => Len(started) = Ordinal(date_range[2]) - Ordinal(date_range[1]) + 1

\* C27: the output path identifies the run: different
\* (date, camera, zone, label, format) never give the same path, and a run
\* is skipped at the gate only because of an archive written with its own
\* arguments.
C27_OutputPathIdentifiesRun ==
    apc = "skipped" =>
       \A f \in disk : f.path = OutputPath(args) => f.by = args

\* C28: when the catalog query answers with zero events the run returns
\* normally: no temporary directory, no download, no engine call, no output
\* file, no abort; in a date range the next day's run is then started.
\* the current call of archive_events_for_date got an empty catalog
ZeroEvents ==
    /\ rpc = "running"
    /\ didQuery
    /\ eventsJson = <<>>
    /\ outcome # "query_error"

C28_EmptyCatalogReturns ==
    /\ [](ZeroEvents =>
             /\ outcome = "no_events"
             /\ pc = "returned"
             /\ exitCode = -1
             /\ runError = "none"
             /\ ~madeTemp
             /\ ~tempDir
             /\ ~didDownload
             /\ ~didEngine
             /\ outputFile = "none")
    /\ (ZeroEvents /\ Len(started) = 1 /\ DateLess(current_date, end_date))
          ~> (Len(started) = 2)

C28_Witness ==
    /\ ZeroEvents
    /\ pc = "returned"
    /\ started = <<(<<2023, 12, 31>>)>>
    /\ end_date = Strptime(<<2024, 1, 1>>)


\* position in the catalog of the clip whose pip file a files.txt line names
PositionOf(line) == CHOOSE k \in 1..Len(clips) : PipLine(clips[k]) = line

\* C29: the clip at 1-based catalog position i of a catalog of N clips is
\* rendered with counter i/N, where N counts every clip of the catalog, the
\* failed ones too; so along files.txt the counters strictly increase and all
\* carry the same total.
C29_CounterIsCatalogPosition ==
    /\ \A k \in 1..Len(counters) :
          /\ clips[k].pip_path # None => counters[k] = <<k, Len(eventsJson)>>
          /\ clips[k].pip_path = None => counters[k] = None
    /\ \A i, j \in 1..Len(concatList) :
          i < j => /\ counters[PositionOf(concatList[i])][1]
                        < counters[PositionOf(concatList[j])][1]
                   /\ counters[PositionOf(concatList[i])][2]
                        = counters[PositionOf(concatList[j])][2]

\* a catalog of three clips whose second clip failed: files.txt holds the
\* clips drawn 1/3 and 3/3
C29_Witness ==
    /\ Len(eventsJson) = 3
    /\ Len(concatList) = 2
    /\ counters = <<<<1, 3>>, None, <<3, 3>>>>
    /\ counters[PositionOf(concatList[2])] = <<3, 3>>

====
